---- MODULE Spec2Model ----
(***************************************************************************)
(* Model of tools/vspec2c.py: the pipeline that annotates a loaded vspec   *)
(* tree with indices and paths and generates the C header and source.      *)
(*                                                                         *)
(* A vspec mapping (a Python dict, iterated in declaration order) is a     *)
(* sequence of <<key, node>> pairs; a node (a Python dict) is a function   *)
(* from its keys to their values, so "k in v" is  k \in DOMAIN v  and a    *)
(* read of a key that is not there raises KeyError.                        *)
(***************************************************************************)
EXTENDS Integers, Sequences, FiniteSets, TLC

\* Largest number of nodes in a loaded tree.
MaxNodes == 3

\* Keys of the entries of one mapping, in declaration order.
NodeNames == <<"A", "B", "C", "D", "E">>

\* "No exception": the value of a result's raised field on a normal return.
None == "<none>"

----------------------------------------------------------------------------
(* The module-level tables.                                                *)

type_map ==
    [k \in {"int8", "uint8", "int16", "uint16", "int32", "uint32", "int64",
            "uint64", "float", "double", "bool", "boolean", "string",
            "stream", "na"} |->
        CASE k = "int8"    -> "VSS_INT8"
          [] k = "uint8"   -> "VSS_UINT8"
          [] k = "int16"   -> "VSS_INT16"
          [] k = "uint16"  -> "VSS_UINT16"
          [] k = "int32"   -> "VSS_INT32"
          [] k = "uint32"  -> "VSS_UINT32"
          [] k = "int64"   -> "VSS_INT64"
          [] k = "uint64"  -> "VSS_UINT64"
          [] k = "float"   -> "VSS_FLOAT"
          [] k = "double"  -> "VSS_DOUBLE"
          [] k = "bool"    -> "VSS_BOOLEAN"
          [] k = "boolean" -> "VSS_BOOLEAN"
          [] k = "string"  -> "VSS_STRING"
          [] k = "stream"  -> "VSS_STREAM"
          [] k = "na"      -> "VSS_NA"]

element_map ==
    [k \in {"attribute", "branch", "sensor", "actuator", "rbranch",
            "element"} |->
        CASE k = "attribute" -> "VSS_ATTRIBUTE"
          [] k = "branch"    -> "VSS_BRANCH"
          [] k = "sensor"    -> "VSS_SENSOR"
          [] k = "actuator"  -> "VSS_ACTUATOR"
          [] k = "rbranch"   -> "VSS_RBRANCH"
          [] k = "element"   -> "VSS_ELEMENT"]

\* The tags the header template declares in its two enums.
vss_signal_type_e ==
    {"VSS_INT8", "VSS_UINT8", "VSS_INT16", "VSS_UINT16", "VSS_INT32",
     "VSS_UINT32", "VSS_DOUBLE", "VSS_FLOAT", "VSS_BOOLEAN", "VSS_STRING",
     "VSS_STREAM", "VSS_NA"}

vss_element_type_e ==
    {"VSS_ATTRIBUTE", "VSS_BRANCH", "VSS_SENSOR", "VSS_ACTUATOR",
     "VSS_RBRANCH", "VSS_ELEMENT"}

\* str.lower() on the spellings that occur in the loaded trees.
lower(s) ==
    CASE s = "Branch" -> "branch"
      [] s = "Sensor" -> "sensor"
      [] s = "UInt64" -> "uint64"
      [] OTHER        -> s

\* The list both bound tests of emit_signal look the tag up in.
ignore_bounds ==
    {"int8", "uint8", "int16", "uint16", "int32", "uint32", "double", "float"}

----------------------------------------------------------------------------
(* The trees vspec.load can hand over.                                     *)

\* A node's own attributes, before any 'children' key.
NodeShapes ==
    { [type |-> "branch",  uuid |-> "u"],
      [type |-> "rbranch", uuid |-> "u"],
      [type |-> "Branch",  uuid |-> "u"],
      [type |-> "Sensor",  uuid |-> "u", datatype |-> "int8",
       min |-> "5", max |-> "9"],
      [type |-> "actuator", uuid |-> "u", datatype |-> "UInt64",
       max |-> "9"],
      [type |-> "sensor",  uuid |-> "u", datatype |-> "bogus"],
      [type |-> "bogus",   uuid |-> "u"],
      [uuid |-> "u"],
      [type |-> "sensor",  datatype |-> "string"] }

\* dict assignment  v[k] = x
SetKey(v, k, x) == (k :> x) @@ v

\* The node of attributes s that owns the mapping c.  A branch of either
\* kind always has its 'children' key, empty when it owns nothing; any
\* other node has the key only when something is nested below it.
Node(s, c) ==
    IF c = <<>> /\ ~("type" \in DOMAIN s
                       /\ lower(s.type) \in {"branch", "rbranch"})
    THEN s
    ELSE SetKey(s, "children", c)

\* Mappings(n, k): the ordered mappings of exactly n nodes in all, the keys
\* of one mapping being NodeNames[k], NodeNames[k+1], ...
\* Dicts(a): the nodes with exactly a nodes below them.
RECURSIVE Mappings(_, _), Dicts(_)
Dicts(a) == {Node(s, c) : s \in NodeShapes, c \in Mappings(a, 1)}

Mappings(n, k) ==
    IF n = 0 THEN {<<>>}
    ELSE UNION { {<<<<NodeNames[k], d>>>> \o rest :
                     d \in Dicts(a), rest \in Mappings(n - 1 - a, k + 1)}
                 : a \in 0..(n - 1) }

----------------------------------------------------------------------------
(* add_signal_index: the for loop over vspec_data.items() is the recursion *)
(* on the tail of the mapping with the running index.  The result carries  *)
(* the mapping as mutated in place, the returned index, and the key of an  *)
(* uncaught KeyError (the nodes annotated before it stay annotated).       *)

RECURSIVE add_signal_index(_, _, _)
add_signal_index(vspec_data, index, parent_index) ==
    IF vspec_data = <<>>
    THEN [data |-> <<>>, index |-> index, raised |-> None]
    ELSE
      LET k  == Head(vspec_data)[1]
          v  == SetKey(SetKey(Head(vspec_data)[2], "_index_", index),
                       "_parent_index_", parent_index)
          i1 == index + 1
      IN
      IF "type" \notin DOMAIN v
      THEN [data |-> <<<<k, v>>>> \o Tail(vspec_data), index |-> i1,
            raised |-> "type"]
      ELSE IF v.type = "branch"
      THEN IF "children" \notin DOMAIN v
           THEN [data |-> <<<<k, v>>>> \o Tail(vspec_data), index |-> i1,
                 raised |-> "children"]
           ELSE
             LET sub == add_signal_index(v.children, i1, v["_index_"])
                 v2  == [v EXCEPT !.children = sub.data]
             IN  IF sub.raised # None
                 THEN [data |-> <<<<k, v2>>>> \o Tail(vspec_data),
                       index |-> sub.index, raised |-> sub.raised]
                 ELSE LET rest == add_signal_index(Tail(vspec_data),
                                                   sub.index, parent_index)
                      IN  [data |-> <<<<k, v2>>>> \o rest.data,
                           index |-> rest.index, raised |-> rest.raised]
      ELSE LET rest == add_signal_index(Tail(vspec_data), i1, parent_index)
           IN  [data |-> <<<<k, v>>>> \o rest.data,
                index |-> rest.index, raised |-> rest.raised]

----------------------------------------------------------------------------
(* add_signal_path: same loop; the path is parent_signal + "_" + k.        *)

RECURSIVE add_signal_path(_, _)
add_signal_path(vspec_data, parent_signal) ==
    IF vspec_data = <<>>
    THEN [data |-> <<>>, raised |-> None]
    ELSE
      LET k == Head(vspec_data)[1]
          signal_path == IF parent_signal # ""
                         THEN parent_signal \o "_" \o k
                         ELSE k
          v == SetKey(Head(vspec_data)[2], "_signal_path_", signal_path)
      IN
      IF "type" \notin DOMAIN v
      THEN [data |-> <<<<k, v>>>> \o Tail(vspec_data), raised |-> "type"]
      ELSE IF v.type = "branch"
      THEN IF "children" \notin DOMAIN v
           THEN [data |-> <<<<k, v>>>> \o Tail(vspec_data),
                 raised |-> "children"]
           ELSE
             LET sub == add_signal_path(v.children, signal_path)
                 v2  == [v EXCEPT !.children = sub.data]
             IN  IF sub.raised # None
                 THEN [data |-> <<<<k, v2>>>> \o Tail(vspec_data),
                       raised |-> sub.raised]
                 ELSE LET rest == add_signal_path(Tail(vspec_data),
                                                  parent_signal)
                      IN  [data |-> <<<<k, v2>>>> \o rest.data,
                           raised |-> rest.raised]
      ELSE LET rest == add_signal_path(Tail(vspec_data), parent_signal)
           IN  [data |-> <<<<k, v>>>> \o rest.data, raised |-> rest.raised]

----------------------------------------------------------------------------
(* generate_header: one macro line per visited node.  A line                *)
(* '#define VSS_{}() vss_get_signal_by_index({})' is the pair of its two    *)
(* format arguments.                                                       *)

RECURSIVE generate_header(_)
generate_header(vspec_data) ==
    IF vspec_data = <<>>
    THEN [macro |-> <<>>, raised |-> None]
    ELSE
      LET v == Head(vspec_data)[2] IN
      IF "_signal_path_" \notin DOMAIN v
      THEN [macro |-> <<>>, raised |-> "_signal_path_"]
      ELSE IF "_index_" \notin DOMAIN v
      THEN [macro |-> <<>>, raised |-> "_index_"]
      ELSE
        LET line == [path |-> v["_signal_path_"], index |-> v["_index_"]] IN
        IF "type" \notin DOMAIN v
        THEN [macro |-> <<line>>, raised |-> "type"]
        ELSE
          LET sub == IF v.type = "branch"
                     THEN IF "children" \notin DOMAIN v
                          THEN [macro |-> <<>>, raised |-> "children"]
                          ELSE generate_header(v.children)
                     ELSE [macro |-> <<>>, raised |-> None]
          IN  IF sub.raised # None
              THEN [macro |-> <<line>> \o sub.macro, raised |-> sub.raised]
              ELSE LET rest == generate_header(Tail(vspec_data))
                   IN  [macro |-> <<line>> \o sub.macro \o rest.macro,
                        raised |-> rest.raised]

----------------------------------------------------------------------------
(* emit_signal.  A printed line is its format string's name and its        *)
(* arguments; exit is TRUE when the function called exit(255); raised is   *)
(* the key of a KeyError that leaves the function; text is the record, by  *)
(* field.  unit, description, enum, sensor and actuator are copied from    *)
(* the node when present and take no part in any decision; they are left   *)
(* out of the record.                                                      *)

Line(fmt, args) == [fmt |-> fmt, args |-> args]

NoText == [index |-> -1, parent_index |-> -1, name |-> "", uuid |-> "",
           elem_type |-> "", data_type |-> "", min |-> "", max |-> ""]

\* The try block: the first key of the four reads that is not there.
MissingKey(vspec_data) ==
    IF "_index_" \notin DOMAIN vspec_data THEN "_index_"
    ELSE IF "_parent_index_" \notin DOMAIN vspec_data THEN "_parent_index_"
    ELSE IF "uuid" \notin DOMAIN vspec_data THEN "uuid"
    ELSE IF "type" \notin DOMAIN vspec_data THEN "type"
    ELSE IF lower(vspec_data.type) \notin DOMAIN element_map
         THEN lower(vspec_data.type)
    ELSE None

emit_signal(signal_name, vspec_data) ==
    LET e == MissingKey(vspec_data) IN
    IF e # None
    THEN LET l1 == Line("Missing in vspec element key: {}", <<e>>) IN
         IF "_signal_path_" \notin DOMAIN vspec_data
         THEN [exit |-> FALSE, raised |-> "_signal_path_", text |-> NoText,
               out |-> <<l1>>]
         ELSE [exit |-> TRUE, raised |-> None, text |-> NoText,
               out |-> <<l1, Line("Path: {}",
                                  <<vspec_data["_signal_path_"]>>)>>]
    ELSE
      LET elem_type == element_map[lower(vspec_data.type)]
          has_dt    == "datatype" \in DOMAIN vspec_data
      IN
      IF has_dt /\ lower(vspec_data.datatype) \notin DOMAIN type_map
      THEN LET l1 == Line("Illegal data type: {}",
                          <<lower(vspec_data.datatype)>>) IN
           IF "_signal_path_" \notin DOMAIN vspec_data
           THEN [exit |-> FALSE, raised |-> "_signal_path_",
                 text |-> NoText, out |-> <<l1>>]
           ELSE [exit |-> TRUE, raised |-> None, text |-> NoText,
                 out |-> <<l1, Line("Signal: {}",
                                    <<vspec_data["_signal_path_"]>>),
                           Line("Try: int8 uint8 ...", <<>>)>>]
      ELSE
        LET data_type == IF has_dt THEN type_map[lower(vspec_data.datatype)]
                         ELSE "VSS_NA"
            has_min == "min" \in DOMAIN vspec_data
            has_max == "max" \in DOMAIN vspec_data
            use_min == has_min /\ elem_type \notin ignore_bounds
            use_max == has_max /\ elem_type \notin ignore_bounds
            no_path == /\ "_signal_path_" \notin DOMAIN vspec_data
                       /\ \/ has_min /\ ~use_min
                          \/ has_max /\ ~use_max
            min == IF use_min THEN vspec_data.min ELSE "INT64_MIN"
            max == IF use_max THEN vspec_data.max ELSE "INT64_MIN"
            pmin == IF has_min /\ ~use_min
                    THEN <<Line("Signal {}: Ignoring specified min value for type {}",
                                <<vspec_data["_signal_path_"], data_type>>)>>
                    ELSE <<>>
            pmax == IF has_max /\ ~use_max
                    THEN <<Line("Signal {}: Ignoring specified max value for type {}",
                                <<vspec_data["_signal_path_"], data_type>>)>>
                    ELSE <<>>
        IN
        IF no_path
        THEN [exit |-> FALSE, raised |-> "_signal_path_", text |-> NoText,
              out |-> <<>>]
        ELSE [exit |-> FALSE, raised |-> None,
              text |-> [index |-> vspec_data["_index_"],
                        parent_index |-> vspec_data["_parent_index_"],
                        name |-> signal_name,
                        uuid |-> vspec_data.uuid,
                        elem_type |-> elem_type,
                        data_type |-> data_type,
                        min |-> min, max |-> max],
              out |-> pmin \o pmax]

----------------------------------------------------------------------------
(* generate_source: one record per visited node, until emit_signal exits.  *)

\* generate_source without the descent into a branch's children.
RECURSIVE generate_source_flat(_)
generate_source_flat(vspec_data) ==
    IF vspec_data = <<>>
    THEN [sig_decl |-> <<>>, exit |-> FALSE, raised |-> None, out |-> <<>>]
    ELSE
      LET r == emit_signal(Head(vspec_data)[1], Head(vspec_data)[2]) IN
      IF r.exit \/ r.raised # None
      THEN [sig_decl |-> <<>>, exit |-> r.exit, raised |-> r.raised,
            out |-> r.out]
      ELSE LET rest == generate_source_flat(Tail(vspec_data))
           IN  [sig_decl |-> <<r.text>> \o rest.sig_decl,
                exit |-> rest.exit, raised |-> rest.raised,
                out |-> r.out \o rest.out]

RECURSIVE generate_source(_)
generate_source(vspec_data) ==
    IF vspec_data = <<>>
    THEN [sig_decl |-> <<>>, exit |-> FALSE, raised |-> None, out |-> <<>>]
    ELSE
      LET k == Head(vspec_data)[1]
          v == Head(vspec_data)[2]
          r == emit_signal(k, v)
      IN
      IF r.exit \/ r.raised # None
      THEN [sig_decl |-> <<>>, exit |-> r.exit, raised |-> r.raised,
            out |-> r.out]
      ELSE
        LET sub == IF v.type = "branch"
                   THEN IF "children" \notin DOMAIN v
                        THEN [sig_decl |-> <<>>, exit |-> FALSE,
                              raised |-> "children", out |-> <<>>]
                        ELSE generate_source(v.children)
                   ELSE [sig_decl |-> <<>>, exit |-> FALSE,
                         raised |-> None, out |-> <<>>]
        IN  IF sub.exit \/ sub.raised # None
            THEN [sig_decl |-> <<r.text>> \o sub.sig_decl,
                  exit |-> sub.exit, raised |-> sub.raised,
                  out |-> r.out \o sub.out]
            ELSE LET rest == generate_source(Tail(vspec_data))
                 IN  [sig_decl |-> <<r.text>> \o sub.sig_decl
                                      \o rest.sig_decl,
                      exit |-> rest.exit, raised |-> rest.raised,
                      out |-> r.out \o sub.out \o rest.out]

----------------------------------------------------------------------------
(* __main__, from the call of vspec.load on.                               *)

VARIABLES
    pc,         \* the statement of __main__ that runs next, "exit" at the end
    tree,       \* the loaded tree, with the annotations made so far
    macro,      \* the result of generate_header
    sig_decl,   \* the result of generate_source
    files,      \* the files written: args[1] and args[2] to their content
    stdout,     \* the lines printed
    traceback,  \* the key of the KeyError that ended the run uncaught
    exit_code   \* the process's exit status, read when pc = "exit"

vars == <<pc, tree, macro, sig_decl, files, stdout, traceback, exit_code>>

Init ==
    /\ pc = "load"
    /\ tree = <<>>
    /\ macro = <<>>
    /\ sig_decl = <<>>
    /\ files = <<>>
    /\ stdout = <<>>
    /\ traceback = None
    /\ exit_code = 0

\* An exception nobody catches: the interpreter prints the traceback and
\* the process ends with status 1.
Uncaught(key) ==
    /\ pc' = "exit"
    /\ traceback' = key
    /\ exit_code' = 1

\* tree = vspec.load(args[0], include_dirs): any tree of at most MaxNodes
\* nodes, the empty one included.
Load ==
    /\ pc = "load"
    /\ \E n \in 0..MaxNodes :
          IF n = 0 THEN tree' = <<>>
          ELSE \E a \in 0..(n - 1) :
                 \E d \in Dicts(a), rest \in Mappings(n - 1 - a, 2) :
                    tree' = <<<<NodeNames[1], d>>>> \o rest
    /\ pc' = "add_signal_index"
    /\ UNCHANGED <<macro, sig_decl, files, stdout, traceback, exit_code>>

\* except vspec.VSpecError as e: print, exit(255)
LoadError ==
    /\ pc = "load"
    /\ stdout' = Append(stdout, Line("Error: {}", <<"VSpecError">>))
    /\ pc' = "exit"
    /\ exit_code' = 255
    /\ UNCHANGED <<tree, macro, sig_decl, files, traceback>>

\* add_signal_index(tree)
AddSignalIndex ==
    /\ pc = "add_signal_index"
    /\ LET r == add_signal_index(tree, 0, -1)
       IN  /\ tree' = r.data
           /\ IF r.raised = None
              THEN pc' = "add_signal_path" /\ UNCHANGED <<traceback, exit_code>>
              ELSE Uncaught(r.raised)
    /\ UNCHANGED <<macro, sig_decl, files, stdout>>

\* add_signal_path(tree)
AddSignalPath ==
    /\ pc = "add_signal_path"
    /\ LET r == add_signal_path(tree, "")
       IN  /\ tree' = r.data
           /\ IF r.raised = None
              THEN pc' = "generate_header" /\ UNCHANGED <<traceback, exit_code>>
              ELSE Uncaught(r.raised)
    /\ UNCHANGED <<macro, sig_decl, files, stdout>>

\* macro = generate_header(tree)
GenerateHeader ==
    /\ pc = "generate_header"
    /\ LET r == generate_header(tree)
       IN  IF r.raised = None
           THEN /\ macro' = r.macro
                /\ pc' = "write_header"
                /\ UNCHANGED <<traceback, exit_code>>
           ELSE /\ Uncaught(r.raised)
                /\ UNCHANGED macro
    /\ UNCHANGED <<tree, sig_decl, files, stdout>>

\* with open(args[1], "w") as hdr_out: hdr_out.write(...)
WriteHeader ==
    /\ pc = "write_header"
    /\ files' = SetKey(files, "args[1]", macro)
    /\ pc' = "generate_source"
    /\ UNCHANGED <<tree, macro, sig_decl, stdout, traceback, exit_code>>

\* sig_decl = generate_source(tree)
GenerateSource ==
    /\ pc = "generate_source"
    /\ LET r == generate_source(tree)
       IN  /\ stdout' = stdout \o r.out
           /\ IF r.exit
              THEN /\ pc' = "exit"
                   /\ exit_code' = 255
                   /\ UNCHANGED <<sig_decl, traceback>>
              ELSE IF r.raised # None
              THEN /\ Uncaught(r.raised)
                   /\ UNCHANGED sig_decl
              ELSE /\ sig_decl' = r.sig_decl
                   /\ pc' = "write_source"
                   /\ UNCHANGED <<traceback, exit_code>>
    /\ UNCHANGED <<tree, macro, files>>

\* with open(args[2], "w") as src_out: src_out.write(...); the script ends.
WriteSource ==
    /\ pc = "write_source"
    /\ files' = SetKey(files, "args[2]", sig_decl)
    /\ pc' = "exit"
    /\ exit_code' = 0
    /\ UNCHANGED <<tree, macro, sig_decl, stdout, traceback>>

Next ==
    \/ Load
    \/ LoadError
    \/ AddSignalIndex
    \/ AddSignalPath
    \/ GenerateHeader
    \/ WriteHeader
    \/ GenerateSource
    \/ WriteSource

Spec == Init /\ [][Next]_vars

----------------------------------------------------------------------------
(* The tree as the specification reads it.                                 *)

\* The kinds that may own children: branch and restricted branch, spelled
\* in any case.
BranchLike(v) ==
    "type" \in DOMAIN v /\ lower(v.type) \in {"branch", "rbranch"}

\* Every node below a mapping, in pre-order, with its place in the tree:
\* the path from the root-level entry, the mapping's owner (the node itself
\* when it is a root-level entry) and its position among its siblings.
\* all = TRUE descends into every 'children' key, all = FALSE only into
\* those of branch-like nodes.
RECURSIVE Flatten(_, _, _, _, _, _)
Flatten(m, all, has_parent, parent, prefix, pos) ==
    IF m = <<>> THEN <<>>
    ELSE
      LET k    == Head(m)[1]
          v    == Head(m)[2]
          path == IF has_parent THEN prefix \o "_" \o k ELSE k
          me   == [name |-> k, path |-> path, v |-> v,
                   has_parent |-> has_parent,
                   parent |-> IF has_parent THEN parent ELSE v,
                   prefix |-> prefix, pos |-> pos]
          below == IF "children" \in DOMAIN v /\ (all \/ BranchLike(v))
                   THEN Flatten(v.children, all, TRUE, v, path, 1)
                   ELSE <<>>
      IN  <<me>> \o below
              \o Flatten(Tail(m), all, has_parent, parent, prefix, pos + 1)

\* The nodes of the tree: the root-level entries and the children of
\* branch-like nodes.
TreeNodes == Flatten(tree, FALSE, FALSE, <<>>, "", 1)

\* Every dict under any 'children' key.
AllDicts == Flatten(tree, TRUE, FALSE, <<>>, "", 1)

Range(seq) == {seq[i] : i \in 1..Len(seq)}

Has(n, key) == key \in DOMAIN n.v

UnknownKind(n) ==
    Has(n, "type") /\ lower(n.v.type) \notin DOMAIN element_map

UnknownValueType(n) ==
    Has(n, "datatype") /\ lower(n.v.datatype) \notin DOMAIN type_map

\* A tree with every required attribute and only known vocabulary.
WellFormed ==
    \A n \in Range(TreeNodes) :
        /\ Has(n, "type") /\ Has(n, "uuid")
        /\ ~UnknownKind(n) /\ ~UnknownValueType(n)
        /\ BranchLike(n.v) => Has(n, "children")

\* add_signal_index(tree) has returned.
AfterIndex ==
    pc \notin {"load", "add_signal_index"} /\ traceback = None

\* add_signal_path(tree) has returned.
AfterPath ==
    AfterIndex /\ pc # "add_signal_path"

\* generate_header(tree) has returned.
AfterHeader ==
    AfterPath /\ pc # "generate_header"

\* generate_source(tree) has returned.
AfterSource ==
    pc = "write_source" \/ (pc = "exit" /\ "args[2]" \in DOMAIN files)

Succeeded == pc = "exit" /\ exit_code = 0

Indexed == {n \in Range(AllDicts) : Has(n, "_index_")}

\* A printed line of one of the given formats whose first argument is path.
Printed(fmts, path) ==
    \E i \in 1..Len(stdout) :
        /\ stdout[i].fmt \in fmts
        /\ Len(stdout[i].args) >= 1
        /\ stdout[i].args[1] = path

----------------------------------------------------------------------------
(* The claims.                                                             *)

\* C1: for every well-formed tree, once add_signal_index has returned every
\* node of the tree has an index, and the indices are exactly 0..N-1, one
\* node each, N being the number of nodes of the tree.
C1_IndicesAreZeroToN ==
    (AfterIndex /\ WellFormed) =>
        LET ns == TreeNodes
            N  == Len(ns)
        IN  /\ \A i \in 1..N : Has(ns[i], "_index_")
            /\ {ns[i].v["_index_"] : i \in 1..N} = 0..(N - 1)
            /\ \A i, j \in 1..N :
                   ns[i].v["_index_"] = ns[j].v["_index_"] => i = j

\* C2: once add_signal_index has returned, every node of a well-formed tree
\* has parent_index < index, parent_index = -1 exactly when it is a
\* root-level entry, and otherwise parent_index is the index of the node
\* whose children mapping holds it.
C2_ParentIndexIsOwnersIndex ==
    (AfterIndex /\ WellFormed) =>
        \A n \in Range(TreeNodes) :
            /\ Has(n, "_index_") /\ Has(n, "_parent_index_")
            /\ n.v["_parent_index_"] < n.v["_index_"]
            /\ (n.v["_parent_index_"] = -1) <=> ~n.has_parent
            /\ n.has_parent =>
                  /\ "_index_" \in DOMAIN n.parent
                  /\ n.v["_parent_index_"] = n.parent["_index_"]

\* C3: once add_signal_path has returned, every node of a well-formed tree
\* has as its path the names of its ancestors and its own, joined by the
\* separator.
C3_PathIsJoinOfAncestorNames ==
    (AfterPath /\ WellFormed) =>
        \A n \in Range(TreeNodes) :
            /\ Has(n, "_signal_path_")
            /\ n.v["_signal_path_"] = n.path

\* C4: when no fatal error occurs, generate_header returns as many macro
\* lines, and generate_source as many records, as indices were assigned;
\* the k-th of each belongs to the node of index k-1, and siblings keep
\* their declaration order.
C4_OneRecordAndMacroPerIndexInOrder ==
    LET N == Cardinality(Indexed) IN
    /\ AfterHeader =>
          /\ Len(macro) = N
          /\ \A k \in 1..Len(macro) :
                /\ macro[k].index = k - 1
                /\ \E n \in Indexed :
                      /\ n.v["_index_"] = k - 1
                      /\ n.v["_signal_path_"] = macro[k].path
    /\ AfterSource =>
          /\ Len(sig_decl) = N
          /\ \A k \in 1..Len(sig_decl) :
                /\ sig_decl[k].index = k - 1
                /\ \E n \in Indexed :
                      /\ n.v["_index_"] = k - 1
                      /\ n.name = sig_decl[k].name
                      /\ n.v["_parent_index_"] = sig_decl[k].parent_index
    /\ AfterHeader =>
          \A a, b \in Indexed :
              (a.has_parent = b.has_parent /\ a.prefix = b.prefix
                  /\ a.pos < b.pos)
                  => a.v["_index_"] < b.v["_index_"]

\* A run that succeeded on a tree with a branch, a child below it and a
\* sibling after it: three records, the sibling's coming last.
C4_Witness ==
    /\ Succeeded
    /\ Len(sig_decl) = 3
    /\ Len(files["args[1]"]) = 3
    /\ sig_decl[2].parent_index = 0
    /\ sig_decl[3].parent_index = -1

\* C5: a node with a min (max) bound and a value-type of the ignore-bounds
\* set gets the sentinel INT64_MIN in its record and a printed notice with
\* its path; with any other value-type the bound is emitted as given.
C5_BoundsIgnoredByValueType ==
    AfterSource =>
        \A n \in Indexed :
            LET rec == sig_decl[n.v["_index_"] + 1]
                ignored == /\ Has(n, "datatype")
                           /\ lower(n.v.datatype) \in ignore_bounds
            IN  /\ Has(n, "min") =>
                      IF ignored
                      THEN /\ rec.min = "INT64_MIN"
                           /\ Printed({"Signal {}: Ignoring specified min value for type {}"},
                                      n.v["_signal_path_"])
                      ELSE rec.min = n.v.min
                /\ Has(n, "max") =>
                      IF ignored
                      THEN /\ rec.max = "INT64_MIN"
                           /\ Printed({"Signal {}: Ignoring specified max value for type {}"},
                                      n.v["_signal_path_"])
                      ELSE rec.max = n.v.max

\* C6: a run that ended wrote both files and succeeded, or failed and wrote
\* neither; no state has a fatal error and the header file written.
C6_BothArtifactsOrNone ==
    /\ Succeeded => DOMAIN files = {"args[1]", "args[2]"}
    /\ (pc = "exit" /\ exit_code # 0) => DOMAIN files = {}

\* C7: a run on a tree with a node of unknown kind or unknown value-type
\* ends with exit code 255, prints the path of such a node, and no record
\* of such a node is in the record list.
C7_UnknownVocabularyIsFatal ==
    LET bad == {n \in Range(TreeNodes) :
                   UnknownKind(n) \/ UnknownValueType(n)}
    IN  (pc = "exit" /\ bad # {}) =>
            /\ exit_code = 255
            /\ \E n \in bad : Printed({"Path: {}", "Signal: {}"}, n.path)
            /\ \A n \in bad : \A k \in 1..Len(sig_decl) :
                   Has(n, "_index_") => sig_decl[k].index # n.v["_index_"]

\* C8: a run on a tree with a node that lacks 'type' or 'uuid' ends with
\* exit code 255 and prints the missing key and that node's path.
C8_MissingKeyIsFatal ==
    LET lacking == {n \in Range(TreeNodes) :
                       ~Has(n, "type") \/ ~Has(n, "uuid")}
    IN  (pc = "exit" /\ lacking # {}) =>
            /\ exit_code = 255
            /\ \E n \in lacking :
                  /\ Printed({"Path: {}"}, n.path)
                  /\ \/ ~Has(n, "type")
                        /\ Printed({"Missing in vspec element key: {}"},
                                   "type")
                     \/ ~Has(n, "uuid")
                        /\ Printed({"Missing in vspec element key: {}"},
                                   "uuid")

\* C9: in a run that succeeded, the entries of a 'children' mapping were
\* visited exactly when its owner was visited and is branch-like (branch or
\* rbranch in any case): then each child has an index, its owner's index as
\* parent_index, a path, one record and one macro; otherwise it has none.
C9_DescendsIntoBranchLikeOnly ==
    Succeeded =>
        \A n \in Range(AllDicts) :
            n.has_parent =>
                IF "_index_" \in DOMAIN n.parent /\ BranchLike(n.parent)
                THEN /\ Has(n, "_index_") /\ Has(n, "_parent_index_")
                     /\ Has(n, "_signal_path_")
                     /\ n.v["_parent_index_"] = n.parent["_index_"]
                     /\ Cardinality({k \in 1..Len(sig_decl) :
                            sig_decl[k].index = n.v["_index_"]}) = 1
                     /\ Cardinality({k \in 1..Len(macro) :
                            macro[k].index = n.v["_index_"]}) = 1
                ELSE /\ ~Has(n, "_index_")
                     /\ ~Has(n, "_signal_path_")

\* C10: every element-kind tag and value-type tag of a record of the
\* written source file is declared in the header's enums.
C10_EmittedTagsAreDeclared ==
    "args[2]" \in DOMAIN files =>
        \A k \in 1..Len(files["args[2]"]) :
            /\ files["args[2]"][k].elem_type \in vss_element_type_e
            /\ files["args[2]"][k].data_type \in vss_signal_type_e

----------------------------------------------------------------------------
(* What the code does guarantee, on the nodes its traversals visit.        *)

\* Every visited node has parent_index < index, -1 exactly at root level,
\* and otherwise the index of the owner of its mapping.
VisitedParentIndexIsOwnersIndex ==
    AfterIndex =>
        \A n \in Indexed :
            /\ n.v["_parent_index_"] < n.v["_index_"]
            /\ (n.v["_parent_index_"] = -1) <=> ~n.has_parent
            /\ n.has_parent =>
                  /\ "_index_" \in DOMAIN n.parent
                  /\ n.v["_parent_index_"] = n.parent["_index_"]

\* Every visited node's path is the join of its ancestors' names and its
\* own, and no other node has a path.
VisitedPathIsJoinOfAncestorNames ==
    AfterPath =>
        \A n \in Range(AllDicts) :
            IF Has(n, "_index_")
            THEN Has(n, "_signal_path_") /\ n.v["_signal_path_"] = n.path
            ELSE ~Has(n, "_signal_path_")

\* When every node has its 'type' key, a visited node that lacks uuid or
\* has an unknown kind or value-type ends the run with exit code 255, the
\* path of such a node printed, the header file written and the source
\* file not.
VisitedDefectIsFatal ==
    LET defect == {n \in Indexed :
                      ~Has(n, "uuid") \/ UnknownKind(n)
                          \/ UnknownValueType(n)}
    IN  (/\ pc = "exit"
         /\ \A n \in Range(AllDicts) : Has(n, "type")
         /\ defect # {}) =>
            /\ exit_code = 255
            /\ DOMAIN files = {"args[1]"}
            /\ sig_decl = <<>>
            /\ \E n \in defect :
                  Printed({"Path: {}", "Signal: {}"}, n.v["_signal_path_"])
====
